---- MODULE Spec2Model ----
(***************************************************************************)
(* A model of tailswitch: the startup merge of registered profiles and     *)
(* configured tailnets (src/main.rs), the menu of App::run_loop and the    *)
(* URL prompt of UrlDisplayApp::run_loop (src/ui.rs), the action arms of   *)
(* main's loop (src/main.rs) and TailscaleClient (src/tailscale.rs), with  *)
(* the poll loop of login_and_get_url taken one attempt at a time.         *)
(***************************************************************************)
EXTENDS Integers, Sequences, FiniteSets, TLC

(***************************************************************************)
(* Option<T>: None is the empty sequence, Some(x) the one-element one.     *)
(***************************************************************************)
None == <<>>

Some(x) == <<x>>

IsSome(o) == o # <<>>

Unwrap(o) == o[1]

(***************************************************************************)
(* Result<T>: Err is the empty sequence, Ok(x) the one-element one.         *)
(***************************************************************************)
Err == <<>>

Ok(x) == <<x>>

IsOk(r) == r # <<>>

(***************************************************************************)
(* Characters. `line.find`, `split_whitespace`, `ends_with('*')` and       *)
(* `trim_end_matches('*')` work on characters, so texts they read are      *)
(* sequences of one-character strings.                                     *)
(***************************************************************************)
Whitespace == {" ", "\n"}

\* "https://login.tailscale.com" (src/tailscale.rs:178), two characters wide here
UrlPrefix == <<"h", "t">>

RECURSIVE SeqsUpTo(_, _)
SeqsUpTo(S, n) ==
    IF n = 0 THEN {<<>>}
    ELSE LET shorter == SeqsUpTo(S, n - 1)
         IN  shorter \cup {Append(s, x) : s \in {t \in shorter : Len(t) = n - 1}, x \in S}

(***************************************************************************)
(* config::Tailnet and AppAction.                                          *)
(***************************************************************************)
Tailnet(name, login_server, auth_key, flags) ==
    [name |-> name, login_server |-> login_server, auth_key |-> auth_key, flags |-> flags]

SelectTailnet(t) == [kind |-> "SelectTailnet", tailnet |-> t]

RunTailscaleUp == [kind |-> "RunTailscaleUp"]

ShowStatus == [kind |-> "ShowStatus"]

Logout == [kind |-> "Logout"]

Quit == [kind |-> "Quit"]

VARIABLES
    pc,            \* where main is: "start", "ui", "handle", "poll", "login_returned",
                   \* "url_prompt", "url_returned", "exit"
    exit_code,     \* None while running, Some(0) or Some(1) once the process has ended
    exit_cause,    \* which statement ended the process
    needs_sudo,    \* main's needs_sudo
    config,        \* config.tailnets
    inputs,        \* what the external client answered to list_profiles and status at
                   \* startup, and to list_profiles in the SelectTailnet arm (history)
    options,       \* App.options
    list_state,    \* App.list_state.selected()
    should_quit,   \* App.should_quit
    output_view,   \* App.output_view
    action,        \* run_loop's local `action`, then main's `action`
    last_event,    \* the event the last iteration of App::run_loop read (history)
    handling,      \* the kind of the action whose arm ran last (history)
    cmds,          \* the external commands that arm has run, in order (history)
    outcome,       \* the branch in which the SelectTailnet arm ended (history)
    login,         \* the call of login_and_get_url: its argument, its loop counter and
                   \* what it read while it runs (history), its result once returned
    url_app,       \* the UrlDisplayApp of the SelectTailnet arm
    printed,       \* what the SelectTailnet arm printed about the URL (history)
    now,           \* SystemTime::now() since the epoch, in whole seconds
    log_files,     \* /tmp/tailscale-auth-<secs>.log by <secs>: None, or Some(contents)
    attempts       \* the calls of login_and_get_url of the instances of the program
                   \* that share /tmp

vars == <<pc, exit_code, exit_cause, needs_sudo, config, inputs, options, list_state,
          should_quit, output_view, action, last_event, handling, cmds, outcome, login,
          url_app, printed, now, log_files, attempts>>

(***************************************************************************)
(* TailscaleClient::create_command.                                        *)
(***************************************************************************)
create_command(sudo, args) ==
    IF sudo THEN <<"sudo", "tailscale">> \o args ELSE <<"tailscale">> \o args

(***************************************************************************)
(* TailscaleClient::list_profiles after the command succeeded: the lines   *)
(* of stdout, each already split at whitespace into its parts; the header  *)
(* line is skipped and a line of fewer than two parts is dropped.          *)
(***************************************************************************)
RECURSIVE ParseProfileLines(_)
ParseProfileLines(lines) ==
    IF lines = <<>> THEN <<>>
    ELSE LET parts == Head(lines)
             rest  == ParseProfileLines(Tail(lines))
         IN  IF Len(parts) >= 2
             THEN <<[tailnet |-> parts[2],
                     account |-> IF Len(parts) > 2 THEN parts[3] ELSE <<>>]>> \o rest
             ELSE rest

list_profiles(result) ==
    IF ~IsOk(result) THEN Err
    ELSE IF Unwrap(result) = <<>> THEN Ok(<<>>)
    ELSE Ok(ParseProfileLines(Tail(Unwrap(result))))

\* unwrap_or_default that takes a failed listing for one profile named "Work"
unwrap_or_one_profile(r) ==
    IF IsOk(r) THEN Unwrap(r) ELSE <<[tailnet |-> "Work", account |-> <<"u">>]>>

\* Result<Vec<_>>::unwrap_or_default
unwrap_or_default(r) == IF IsOk(r) THEN Unwrap(r) ELSE <<>>

\* str::ends_with('*')
ends_with_star(account) == account # <<>> /\ account[Len(account)] = "*"

\* str::trim_end_matches('*')
RECURSIVE trim_end_matches_star(_)
trim_end_matches_star(account) ==
    IF ends_with_star(account)
    THEN trim_end_matches_star(SubSeq(account, 1, Len(account) - 1))
    ELSE account

(***************************************************************************)
(* The status texts of the external client, and str::contains on them.     *)
(***************************************************************************)
StatusConnected == "100.64.0.1 laptop user@ linux -"

StatusLoggedOut == "Logged out."

StatusTexts == {StatusConnected, StatusLoggedOut}

ContainsLoggedOut(text) == text = StatusLoggedOut

(***************************************************************************)
(* main, lines 59-92: the active tailnet and the list of options.          *)
(***************************************************************************)
ActiveTailnet(profiles, is_logged_in) ==
    IF is_logged_in /\ \E i \in 1..Len(profiles) : ends_with_star(profiles[i].account)
    THEN LET first == CHOOSE i \in 1..Len(profiles) :
                        /\ ends_with_star(profiles[i].account)
                        /\ \A j \in 1..(i - 1) : ~ends_with_star(profiles[j].account)
         IN  Some(profiles[first].tailnet)
    ELSE None

ProfileOption(p, active_tailnet) ==
    [name       |-> p.tailnet,
     account    |-> Some(trim_end_matches_star(p.account)),
     is_profile |-> TRUE,
     is_active  |-> IsSome(active_tailnet) /\ Unwrap(active_tailnet) = p.tailnet]

ConfigOption(t) ==
    [name |-> t.name, account |-> None, is_profile |-> FALSE, is_active |-> FALSE]

ProfileExists(profiles, name) == \E i \in 1..Len(profiles) : profiles[i].tailnet = name

RECURSIVE ConfigOptions(_, _)
ConfigOptions(tailnets, profiles) ==
    IF tailnets = <<>> THEN <<>>
    ELSE IF ~ProfileExists(profiles, Head(tailnets).name)
         THEN <<ConfigOption(Head(tailnets))>> \o ConfigOptions(Tail(tailnets), profiles)
         ELSE ConfigOptions(Tail(tailnets), profiles)

BuildOptions(profiles, tailnets, current_status) ==
    LET is_logged_in   == ~ContainsLoggedOut(current_status)
        active_tailnet == ActiveTailnet(profiles, is_logged_in)
    IN  [i \in 1..Len(profiles) |-> ProfileOption(profiles[i], active_tailnet)]
        \o ConfigOptions(tailnets, profiles)

\* App::new_with_options
new_list_state(opts) == IF opts # <<>> THEN Some(0) ELSE None

(***************************************************************************)
(* The answers of the outside world that the orchestration is run against. *)
(***************************************************************************)
ListHeader == <<"ID", "Tailnet", <<"A">>>>

ListResults ==
    { Err,
      Ok(<<ListHeader>>),
      Ok(<<ListHeader, <<"a1", "Work", <<"u", "*">>>>>>),
      Ok(<<ListHeader, <<"a1", "Work", <<"u", "*">>>>, <<"b2", "Home", <<"u">>>>>>) }

Configs ==
    { <<>>,
      <<Tailnet("Home", None, Some("k1"), None)>>,
      <<Tailnet("Travel", None, None, None)>>,
      <<Tailnet("Work", Some("https://login.tailscale.com"), Some("k1"),
                Some(<<"--accept-routes">>)),
        Tailnet("Personal", None, None, None)>> }

StatusResults == {Err} \cup {Ok(text) : text \in StatusTexts}

KeyCodes == {"q", "j", "Down", "k", "Up", "u", "s", "l", "Enter", "Esc", "c", "x"}

KeyPress(code) == [type |-> "Key", kind |-> "Press", code |-> code]

Events ==
    {KeyPress(code) : code \in KeyCodes}
      \cup {[type |-> "Key", kind |-> "Release", code |-> "q"],
            [type |-> "Resize", kind |-> "", code |-> ""]}

(***************************************************************************)
(* The process ends: std::process::exit, or main returns.                  *)
(***************************************************************************)
\* the instances of the program that run at the same time, and the seconds followed
Instances == {"a", "b"}

MaxNow == 1

IdleAttempt == [stage |-> "idle", log_file |-> 0, wrote |-> FALSE, attempt |-> 0,
                result |-> None]

\* no login_and_get_url of another instance is under way
NoAttempts ==
    /\ now = 0
    /\ log_files = [secs \in 0..MaxNow |-> None]
    /\ attempts = [i \in Instances |-> IdleAttempt]

OneInstance == UNCHANGED <<now, log_files, attempts>>

Exit(code, cause) ==
    /\ pc' = "exit"
    /\ exit_code' = Some(code)
    /\ exit_cause' = cause
    /\ OneInstance

Running == UNCHANGED <<exit_code, exit_cause>> /\ OneInstance

Init ==
    /\ pc = "start"
    /\ exit_code = None
    /\ exit_cause = ""
    /\ needs_sudo = FALSE
    /\ config = <<>>
    /\ inputs = [list |-> Err, status |-> Err, select_list |-> Err,
                switched |-> None, logged_out |-> None, installed |-> None,
                primed |-> None]
    /\ options = <<>>
    /\ list_state = None
    /\ should_quit = FALSE
    /\ output_view = None
    /\ action = None
    /\ last_event = None
    /\ handling = ""
    /\ cmds = <<>>
    /\ outcome = ""
    /\ login = [tailnet |-> None, site |-> "", attempt |-> 0, reads |-> 0,
                spawned |-> 0, result |-> None, timed_out |-> FALSE, polled |-> FALSE,
                first_seen |-> 0, seen |-> <<>>, read_failed |-> FALSE]
    /\ url_app = None
    /\ printed = {}
    /\ NoAttempts

(***************************************************************************)
(* main, lines 10-95, given what the checks and the client answered.       *)
(***************************************************************************)
\* history: what check_installed answered and, where it was run, whether `sudo -v`
\* succeeded
StartupAnswers(installed, sudo, primed) ==
    [inputs EXCEPT !.installed = Some(installed),
                   !.primed = IF IsOk(installed) /\ Unwrap(installed) /\ sudo
                              THEN Some(primed) ELSE None]

\* line 47: `profiles.is_empty() && config.tailnets.is_empty()` that is never true
never_nothing_to_show(profiles, tailnets) == FALSE

nothing_to_show(profiles, tailnets) == profiles = <<>> /\ tailnets = <<>>

StartupWith(installed, sudo, primed, loaded, listed, status) ==
    /\ pc = "start"
    /\ UNCHANGED <<should_quit, output_view, action, last_event, handling, cmds, outcome,
                   login, url_app, printed>>
    /\ IF ~IsOk(installed)
       THEN /\ Exit(1, "check_installed_failed")
            /\ inputs' = StartupAnswers(installed, sudo, primed)
            /\ UNCHANGED <<needs_sudo, config, options, list_state>>
       ELSE IF ~Unwrap(installed)
       THEN /\ Exit(1, "not_installed")
            /\ inputs' = StartupAnswers(installed, sudo, primed)
            /\ UNCHANGED <<needs_sudo, config, options, list_state>>
       ELSE IF sudo /\ ~primed
       THEN /\ Exit(1, "sudo_failed")
            /\ needs_sudo' = sudo
            /\ inputs' = StartupAnswers(installed, sudo, primed)
            /\ UNCHANGED <<config, options, list_state>>
       ELSE IF ~IsOk(loaded)
       THEN /\ Exit(1, "config_failed")
            /\ needs_sudo' = sudo
            /\ inputs' = StartupAnswers(installed, sudo, primed)
            /\ UNCHANGED <<config, options, list_state>>
       ELSE LET profiles == unwrap_or_default(list_profiles(listed))
            IN  /\ needs_sudo' = sudo
                /\ config' = Unwrap(loaded)
                /\ IF nothing_to_show(profiles, Unwrap(loaded))
                   THEN /\ Exit(1, "nothing_to_show")
                        /\ inputs' = [StartupAnswers(installed, sudo, primed)
                                         EXCEPT !.list = listed]
                        /\ UNCHANGED <<options, list_state>>
                   ELSE LET current_status == IF IsOk(status) THEN Unwrap(status) ELSE ""
                            all_options    ==
                                BuildOptions(profiles, Unwrap(loaded), current_status)
                        IN  /\ inputs' = [StartupAnswers(installed, sudo, primed)
                                             EXCEPT !.list = listed, !.status = status]
                            /\ options' = all_options
                            /\ list_state' = new_list_state(all_options)
                            /\ pc' = "ui"
                            /\ Running

Startup ==
    \E installed \in {Err, Ok(TRUE), Ok(FALSE)}, sudo \in BOOLEAN, primed \in BOOLEAN,
       loaded \in {Err} \cup {Ok(c) : c \in Configs}, listed \in ListResults, status \in StatusResults :
        StartupWith(installed, sudo, primed, loaded, listed, status)

(***************************************************************************)
(* App::next and App::previous.                                            *)
(***************************************************************************)
\* usize::MAX, the value of `0 - 1` where the overflow is not checked; the model takes
\* the largest integer of the checker, every index a list holds being smaller
UsizeMax == 2147483647

\* `self.options.len() - 1` in a build without overflow checks
wrapping_pred(len) == IF len = 0 THEN UsizeMax ELSE len - 1

\* App::next that stays on the last index
next_stops_at_last(selected, len) ==
    IF IsSome(selected)
    THEN IF Unwrap(selected) >= wrapping_pred(len) THEN selected
         ELSE Some(Unwrap(selected) + 1)
    ELSE Some(0)

next(selected, len) ==
    IF IsSome(selected)
    THEN IF Unwrap(selected) >= wrapping_pred(len) THEN Some(0)
         ELSE Some(Unwrap(selected) + 1)
    ELSE Some(0)

\* App::previous that goes from the first index to `self.options.len()`
previous_to_len(selected, len) ==
    IF IsSome(selected)
    THEN IF Unwrap(selected) = 0 THEN Some(len)
         ELSE Some(Unwrap(selected) - 1)
    ELSE Some(0)

previous(selected, len) ==
    IF IsSome(selected)
    THEN IF Unwrap(selected) = 0 THEN Some(wrapping_pred(len))
         ELSE Some(Unwrap(selected) - 1)
    ELSE Some(0)

(***************************************************************************)
(* One iteration of App::run_loop, lines 84-158: draw, read one event,     *)
(* handle it, and leave the loop (run returns `action`) if should_quit.    *)
(***************************************************************************)
\* OutputViewKey without `self.output_view = None` on 'q'
OutputViewKeyQuitKeepsView(code) ==
    IF code \in {"Esc", "Enter"}
    THEN /\ output_view' = None
         /\ action' = None
         /\ should_quit' = FALSE
         /\ UNCHANGED list_state
    ELSE IF code = "q"
    THEN /\ action' = Some(Quit)
         /\ should_quit' = TRUE
         /\ UNCHANGED <<output_view, list_state>>
    ELSE UNCHANGED <<output_view, action, should_quit, list_state>>

\* OutputViewKey without `self.should_quit = false` on Esc and Enter
OutputViewKeyKeepsShouldQuit(code) ==
    IF code \in {"Esc", "Enter"}
    THEN /\ output_view' = None
         /\ action' = None
         /\ UNCHANGED <<should_quit, list_state>>
    ELSE IF code = "q"
    THEN /\ output_view' = None
         /\ action' = Some(Quit)
         /\ should_quit' = TRUE
         /\ UNCHANGED list_state
    ELSE UNCHANGED <<output_view, action, should_quit, list_state>>

OutputViewKey(code) ==
    IF code \in {"Esc", "Enter"}
    THEN /\ output_view' = None
         /\ action' = None
         /\ should_quit' = FALSE
         /\ UNCHANGED list_state
    ELSE IF code = "q"
    THEN /\ output_view' = None
         /\ action' = Some(Quit)
         /\ should_quit' = TRUE
         /\ UNCHANGED list_state
    ELSE UNCHANGED <<output_view, action, should_quit, list_state>>

\* EnterKey that also shows the selected name in the output view
EnterKeyShowsOutput ==
    IF IsSome(list_state) /\ Unwrap(list_state) < Len(options)
    THEN /\ action' = Some(SelectTailnet(
                          Tailnet(options[Unwrap(list_state) + 1].name, None, None, None)))
         /\ should_quit' = TRUE
         /\ output_view' = Some([title   |-> <<"Selected">>,
                                 content |-> <<options[Unwrap(list_state) + 1].name>>])
         /\ UNCHANGED list_state
    ELSE UNCHANGED <<output_view, action, should_quit, list_state>>

EnterKey ==
    IF IsSome(list_state) /\ Unwrap(list_state) < Len(options)
    THEN /\ action' = Some(SelectTailnet(
                          Tailnet(options[Unwrap(list_state) + 1].name, None, None, None)))
         /\ should_quit' = TRUE
         /\ UNCHANGED <<output_view, list_state>>
    ELSE UNCHANGED <<output_view, action, should_quit, list_state>>

ListViewKey(code) ==
    CASE code = "q" ->
            /\ action' = Some(Quit)
            /\ should_quit' = TRUE
            /\ UNCHANGED <<output_view, list_state>>
      [] code \in {"Down", "j"} ->
            /\ list_state' = next(list_state, Len(options))
            /\ UNCHANGED <<output_view, action, should_quit>>
      [] code \in {"Up", "k"} ->
            /\ list_state' = previous(list_state, Len(options))
            /\ UNCHANGED <<output_view, action, should_quit>>
      [] code = "u" ->
            /\ action' = Some(RunTailscaleUp)
            /\ should_quit' = TRUE
            /\ UNCHANGED <<output_view, list_state>>
      [] code = "s" ->
            /\ action' = Some(ShowStatus)
            /\ should_quit' = TRUE
            /\ UNCHANGED <<output_view, list_state>>
      [] code = "l" ->
            /\ action' = Some(Logout)
            /\ should_quit' = TRUE
            /\ UNCHANGED <<output_view, list_state>>
      [] code = "Enter" -> EnterKey
      [] OTHER -> UNCHANGED <<output_view, action, should_quit, list_state>>

BreakIfShouldQuit == pc' = IF should_quit' THEN "handle" ELSE "ui"

RunLoopIteration ==
    /\ pc = "ui"
    /\ \E ev \in Events :
          /\ last_event' = Some(ev)
          /\ IF ev.type = "Key" /\ ev.kind = "Press"
             THEN IF IsSome(output_view) THEN OutputViewKey(ev.code)
                  ELSE ListViewKey(ev.code)
             ELSE UNCHANGED <<output_view, action, should_quit, list_state>>
    /\ BreakIfShouldQuit
    /\ Running
    /\ UNCHANGED <<needs_sudo, config, inputs, options, handling, cmds, outcome, login,
                   url_app, printed>>

(***************************************************************************)
(* A draw or an event read fails in App::run or UrlDisplayApp::run: the    *)
(* error is returned through `?` (main, lines 98, 158, 306).               *)
(***************************************************************************)
TerminalFailure ==
    /\ pc \in {"ui", "url_prompt"}
    /\ Exit(1, "terminal_io")
    /\ UNCHANGED <<needs_sudo, config, inputs, options, list_state, should_quit,
                   output_view, action, last_event, handling, cmds, outcome, login,
                   url_app, printed>>

(***************************************************************************)
(* main's loop calls app.run() again: run_loop starts with action = None.  *)
(***************************************************************************)
NextCycle ==
    /\ pc' = "ui"
    /\ action' = None
    /\ last_event' = None
    /\ Running

(***************************************************************************)
(* App::get_selected_tailnet_name, App::get_active_tailnet_name and the    *)
(* lookup `config.tailnets.iter().find(|t| t.name == name)`.               *)
(***************************************************************************)
\* get_selected_tailnet_name that answers the first option, whatever is highlighted
get_first_tailnet_name == IF options # <<>> THEN Some(options[1].name) ELSE None

get_selected_tailnet_name ==
    IF IsSome(list_state) /\ Unwrap(list_state) < Len(options)
    THEN Some(options[Unwrap(list_state) + 1].name)
    ELSE None

get_active_tailnet_name ==
    IF \E i \in 1..Len(options) : options[i].is_active
    THEN LET first == CHOOSE i \in 1..Len(options) :
                        /\ options[i].is_active
                        /\ \A j \in 1..(i - 1) : ~options[j].is_active
         IN  Some(options[first].name)
    ELSE None

FindTailnet(tailnets, name) ==
    IF \E i \in 1..Len(tailnets) : tailnets[i].name = name
    THEN LET first == CHOOSE i \in 1..Len(tailnets) :
                        /\ tailnets[i].name = name
                        /\ \A j \in 1..(i - 1) : tailnets[j].name # name
         IN  Some(tailnets[first])
    ELSE None

(***************************************************************************)
(* The argument lists TailscaleClient builds.                              *)
(***************************************************************************)
ServerArgs(t) ==
    IF IsSome(t.login_server) THEN <<"--login-server", Unwrap(t.login_server)>> ELSE <<>>

FlagArgs(t) == IF IsSome(t.flags) THEN Unwrap(t.flags) ELSE <<>>

\* run_up_args of a client that logs out
logout_args(t) == <<"logout">>

\* run_up, lines 247-263
run_up_args(t) ==
    <<"up">> \o ServerArgs(t)
      \o (IF IsSome(t.auth_key) THEN <<"--auth-key", Unwrap(t.auth_key)>> ELSE <<>>)
      \o FlagArgs(t)

\* login_up_args that leaves the custom flags out
login_up_args_without_flags(t) ==
    <<"up">> \o ServerArgs(t) \o <<"--auth-key", Unwrap(t.auth_key)>>

\* login_and_get_url with an auth key, lines 105-118
login_up_args(t) ==
    <<"up">> \o ServerArgs(t) \o <<"--auth-key", Unwrap(t.auth_key)>> \o FlagArgs(t)

\* login_and_get_url without an auth key, lines 141-169
login_script(sudo, t) ==
    <<"bash", "-c">>
      \o create_command(sudo, <<"login">> \o ServerArgs(t) \o FlagArgs(t))
      \o <<">", "log_file", "2>&1", "&">>

(***************************************************************************)
(* main, lines 450-459: the ShowStatus arm.                                *)
(***************************************************************************)
HandleShowStatus ==
    /\ pc = "handle"
    /\ IsSome(action) /\ Unwrap(action).kind = "ShowStatus"
    /\ \E status \in StatusResults :
          output_view' = Some([title   |-> <<"Tailscale Status">>,
                               content |-> IF IsOk(status) THEN <<Unwrap(status)>>
                                           ELSE <<"Failed to get status">>])
    /\ handling' = "ShowStatus"
    /\ cmds' = <<create_command(needs_sudo, <<"status">>)>>
    /\ outcome' = ""
    /\ NextCycle
    /\ UNCHANGED <<needs_sudo, config, inputs, options, list_state, should_quit, login,
                   url_app, printed>>

(***************************************************************************)
(* main, lines 460-470: the Logout arm.                                    *)
(***************************************************************************)
\* HandleLogout that puts the selection back on the first option
HandleLogoutResetsSelection ==
    /\ pc = "handle"
    /\ IsSome(action) /\ Unwrap(action).kind = "Logout"
    /\ \E logged_out \in BOOLEAN :
          output_view' = Some([title   |-> <<"Logout">>,
                               content |-> IF logged_out THEN <<"Successfully logged out!">>
                                           ELSE <<"Failed to logout">>])
    /\ handling' = "Logout"
    /\ cmds' = <<create_command(needs_sudo, <<"logout">>)>>
    /\ outcome' = ""
    /\ list_state' = new_list_state(options)
    /\ NextCycle
    /\ UNCHANGED <<needs_sudo, config, inputs, options, should_quit, login,
                   url_app, printed>>

HandleLogout ==
    /\ pc = "handle"
    /\ IsSome(action) /\ Unwrap(action).kind = "Logout"
    /\ \E logged_out \in BOOLEAN :
          output_view' = Some([title   |-> <<"Logout">>,
                               content |-> IF logged_out THEN <<"Successfully logged out!">>
                                           ELSE <<"Failed to logout">>])
    /\ handling' = "Logout"
    /\ cmds' = <<create_command(needs_sudo, <<"logout">>)>>
    /\ outcome' = ""
    /\ NextCycle
    /\ UNCHANGED <<needs_sudo, config, inputs, options, list_state, should_quit, login,
                   url_app, printed>>

(***************************************************************************)
(* main, lines 394-449: the RunTailscaleUp arm.                            *)
(***************************************************************************)
RunUpOutput(tailnet_config, status) ==
    <<"Successfully updated connection settings for", tailnet_config.name>>
      \o (IF IsSome(tailnet_config.flags)
          THEN <<"Applied flags:">> \o Unwrap(tailnet_config.flags) ELSE <<>>)
      \o (IF IsOk(status) THEN <<Unwrap(status)>> ELSE <<>>)

HandleRunTailscaleUp ==
    /\ pc = "handle"
    /\ IsSome(action) /\ Unwrap(action).kind = "RunTailscaleUp"
    /\ handling' = "RunTailscaleUp"
    /\ LET selected == get_selected_tailnet_name
           chosen   == IF IsSome(selected) THEN selected ELSE get_active_tailnet_name
       IN  IF ~IsSome(chosen)
           THEN /\ output_view' = Some([title   |-> <<"Error">>,
                                        content |-> <<"No tailnet selected or active">>])
                /\ cmds' = <<>>
                /\ outcome' = "NoTailnet"
           ELSE LET tailnet_name   == Unwrap(chosen)
                    found          == FindTailnet(config, tailnet_name)
                    tailnet_config == IF IsSome(found) THEN Unwrap(found)
                                      ELSE Tailnet(tailnet_name, None, None, None)
                    up             == create_command(needs_sudo, run_up_args(tailnet_config))
                IN  \E up_ok \in BOOLEAN, status \in StatusResults :
                       IF up_ok
                       THEN /\ output_view' =
                                 Some([title   |-> <<"Tailscale Up - ", tailnet_name>>,
                                       content |-> RunUpOutput(tailnet_config, status)])
                            /\ cmds' = <<up, create_command(needs_sudo, <<"status">>)>>
                            /\ outcome' = "UpDone"
                       ELSE /\ output_view' =
                                 Some([title   |-> <<"Tailscale Up - ", tailnet_name>>,
                                       content |-> <<"Failed to run tailscale up">>])
                            /\ cmds' = <<up>>
                            /\ outcome' = "UpFailed"
    /\ NextCycle
    /\ UNCHANGED <<needs_sudo, config, inputs, options, list_state, should_quit, login,
                   url_app, printed>>

(***************************************************************************)
(* main, lines 471-481: Some(Quit) and None both leave the loop.           *)
(***************************************************************************)
HandleQuitOrNone ==
    /\ pc = "handle"
    /\ IF IsSome(action) THEN Unwrap(action).kind = "Quit" ELSE TRUE
    /\ handling' = IF IsSome(action) THEN "Quit" ELSE "None"
    /\ cmds' = <<>>
    /\ Exit(0, "loop_left")
    /\ UNCHANGED <<needs_sudo, config, inputs, options, list_state, should_quit,
                   output_view, action, last_event, outcome, login, url_app, printed>>

(***************************************************************************)
(* The scan of one read of the log file, login_and_get_url lines 175-187.  *)
(***************************************************************************)
\* str::lines: the text between newlines; a final newline ends the last line
RECURSIVE LinesFrom(_, _)
LinesFrom(contents, current) ==
    IF contents = <<>> THEN (IF current = <<>> THEN <<>> ELSE <<current>>)
    ELSE IF Head(contents) = "\n" THEN <<current>> \o LinesFrom(Tail(contents), <<>>)
    ELSE LinesFrom(Tail(contents), Append(current, Head(contents)))

Lines(contents) == LinesFrom(contents, <<>>)

StartsWith(text, prefix) ==
    /\ Len(text) >= Len(prefix)
    /\ SubSeq(text, 1, Len(prefix)) = prefix

\* str::find: the first index (from 1) at which `prefix` starts, or None
RECURSIVE FindFrom(_, _, _)
FindFrom(line, prefix, start) ==
    IF start + Len(prefix) - 1 > Len(line) THEN None
    ELSE IF StartsWith(SubSeq(line, start, Len(line)), prefix) THEN Some(start)
    ELSE FindFrom(line, prefix, start + 1)

\* Find that answers the start of the line wherever the prefix is
FoundAtLineStart(line, prefix) ==
    IF IsSome(FindFrom(line, prefix, 1)) THEN Some(1) ELSE None

Find(line, prefix) == FindFrom(line, prefix, 1)

RECURSIVE SkipWhitespace(_)
SkipWhitespace(text) ==
    IF text # <<>> /\ Head(text) \in Whitespace THEN SkipWhitespace(Tail(text)) ELSE text

RECURSIVE TakeToken(_)
TakeToken(text) ==
    IF text = <<>> \/ Head(text) \in Whitespace THEN <<>>
    ELSE <<Head(text)>> \o TakeToken(Tail(text))

\* FirstToken without the split at whitespace
RestOfLine(text) == text

\* url_part.split_whitespace().next().unwrap_or("")
FirstToken(text) == TakeToken(SkipWhitespace(text))

\* the body of `for line in contents.lines()`: Some(url) where it returns
RECURSIVE ScanLines(_)
ScanLines(lines) ==
    IF lines = <<>> THEN None
    ELSE LET line  == Head(lines)
             start == Find(line, UrlPrefix)
             url   == IF IsSome(start)
                      THEN FirstToken(SubSeq(line, Unwrap(start), Len(line)))
                      ELSE <<>>
         IN  IF IsSome(start) /\ url # <<>> THEN Some(url) ELSE ScanLines(Tail(lines))

\* ScanRead where a file that cannot be read ends the search with an empty answer
ScanReadOrEmpty(read) == IF IsOk(read) THEN ScanLines(Lines(Unwrap(read))) ELSE Some(<<>>)

\* `if let Ok(contents) = std::fs::read_to_string(&log_file)`
ScanRead(read) == IF IsOk(read) THEN ScanLines(Lines(Unwrap(read))) ELSE None

(***************************************************************************)
(* The start of login_and_get_url(tailnet), lines 102-169, called by the   *)
(* SelectTailnet arm after it ran `before`: with an auth key the           *)
(* foreground `up`, otherwise the background `login` and then the poll     *)
(* loop. An Err comes back to main's `?`, which returns it.                *)
(***************************************************************************)
NewLogin(tailnet, site) ==
    [tailnet |-> Some(tailnet), site |-> site, attempt |-> 0, reads |-> 0,
     spawned |-> 0, result |-> None, timed_out |-> FALSE, polled |-> FALSE,
     first_seen |-> 0, seen |-> <<>>, read_failed |-> FALSE]

\* login_commands with a logout run first
logout_then_login_commands(sudo, tailnet) ==
    <<create_command(sudo, <<"logout">>)>>
      \o (IF IsSome(tailnet.auth_key)
          THEN <<create_command(sudo, login_up_args(tailnet))>>
          ELSE <<login_script(sudo, tailnet)>>)

\* login_commands of an arm that calls login_and_get_url a second time
login_commands_twice(sudo, tailnet) ==
    IF IsSome(tailnet.auth_key)
    THEN <<create_command(sudo, login_up_args(tailnet)),
           create_command(sudo, login_up_args(tailnet))>>
    ELSE <<login_script(sudo, tailnet), login_script(sudo, tailnet)>>

\* the command login_and_get_url runs first, and nothing before it
login_commands(sudo, tailnet) ==
    IF IsSome(tailnet.auth_key)
    THEN <<create_command(sudo, login_up_args(tailnet))>>
    ELSE <<login_script(sudo, tailnet)>>

BeginLogin(tailnet, site, before, up_ok, spawn_ok) ==
    IF IsSome(tailnet.auth_key)
    THEN /\ cmds' = before \o login_commands(needs_sudo, tailnet)
         /\ login' = NewLogin(tailnet, site)
         /\ IF up_ok
            THEN /\ pc' = "login_returned"
                 /\ outcome' = ""
                 /\ Running
            ELSE /\ outcome' = "LoginError"
                 /\ Exit(1, "login_failed")
    ELSE /\ cmds' = before \o login_commands(needs_sudo, tailnet)
         /\ IF spawn_ok
            THEN /\ login' = [NewLogin(tailnet, site) EXCEPT !.spawned = 1]
                 /\ pc' = "poll"
                 /\ outcome' = ""
                 /\ Running
            ELSE /\ login' = NewLogin(tailnet, site)
                 /\ outcome' = "LoginError"
                 /\ Exit(1, "login_failed")

(***************************************************************************)
(* main, lines 102-285: the SelectTailnet arm up to the call of            *)
(* login_and_get_url, or to `return Ok(())` after a switch.                *)
(***************************************************************************)
\* TailscaleClient::is_logged_out().unwrap_or(false)
\* is_logged_out_or_false that takes the answer the other way round
is_logged_in_or_false(r) == IF IsOk(r) THEN ~Unwrap(r) ELSE FALSE

\* is_logged_out().unwrap_or(true)
is_logged_out_or_true(r) == IF IsOk(r) THEN Unwrap(r) ELSE TRUE

is_logged_out_or_false(r) == IF IsOk(r) THEN Unwrap(r) ELSE FALSE

\* tailnet_with_config that never looks into the configuration
tailnet_as_selected(tailnets, tailnet) == tailnet

\* lines 129-137: the config entry of that name, else the selected tailnet
tailnet_with_config(tailnets, tailnet) ==
    LET config_entry == FindTailnet(tailnets, tailnet.name)
    IN  IF IsSome(config_entry) THEN Unwrap(config_entry) ELSE tailnet

\* fall_through_tailnet that takes the configured tailnet of that name
fall_through_tailnet_of_config(tailnets, tailnet) ==
    IF IsSome(FindTailnet(tailnets, tailnet.name))
    THEN Unwrap(FindTailnet(tailnets, tailnet.name)) ELSE tailnet

\* lines 282-283: `login_and_get_url(&tailnet)`, the tailnet of the action
fall_through_tailnet(tailnets, tailnet) == tailnet

SelectWith(tailnet, listed, switched, logged_out, up_ok, spawn_ok) ==
    LET profiles       == unwrap_or_default(list_profiles(listed))
        profile_exists == ProfileExists(profiles, tailnet.name)
        list_cmd       == create_command(needs_sudo, <<"switch", "--list">>)
        switch_cmd     == create_command(needs_sudo, <<"switch", tailnet.name>>)
        status_cmd     == create_command(needs_sudo, <<"status">>)
    IN  IF profile_exists
        THEN IF switched
             THEN IF is_logged_out_or_false(logged_out)
                  THEN BeginLogin(tailnet_with_config(config, tailnet), "after_switch",
                                  <<list_cmd, switch_cmd, status_cmd>>, up_ok, spawn_ok)
                  ELSE /\ cmds' = <<list_cmd, switch_cmd, status_cmd, status_cmd>>
                       /\ outcome' = "Switched"
                       /\ Exit(0, "switched")
                       /\ UNCHANGED login
             ELSE BeginLogin(fall_through_tailnet(config, tailnet), "fall_through",
                             <<list_cmd, switch_cmd>>, up_ok, spawn_ok)
        ELSE BeginLogin(fall_through_tailnet(config, tailnet), "fall_through",
                        <<list_cmd>>, up_ok, spawn_ok)

\* history: what switch_to and is_logged_out answered, where the arm called them
SwitchAnswer(listed, switched) ==
    IF ProfileExists(unwrap_or_default(list_profiles(listed)), Unwrap(action).tailnet.name)
    THEN Some(switched) ELSE None

StatusAnswer(listed, switched, logged_out) ==
    IF SwitchAnswer(listed, switched) = Some(TRUE) THEN Some(logged_out) ELSE None

HandleSelectTailnet ==
    /\ pc = "handle"
    /\ IsSome(action) /\ Unwrap(action).kind = "SelectTailnet"
    /\ handling' = "SelectTailnet"
    /\ last_event' = None
    /\ \E listed \in ListResults, switched \in BOOLEAN,
          logged_out \in {Err, Ok(TRUE), Ok(FALSE)}, up_ok \in BOOLEAN, spawn_ok \in BOOLEAN :
          /\ inputs' = [inputs EXCEPT !.select_list = listed,
                                      !.switched = SwitchAnswer(listed, switched),
                                      !.logged_out =
                                          StatusAnswer(listed, switched, logged_out)]
          /\ SelectWith(Unwrap(action).tailnet, listed, switched, logged_out, up_ok,
                        spawn_ok)
    /\ UNCHANGED <<needs_sudo, config, options, list_state, should_quit, output_view,
                   action, url_app, printed>>

(***************************************************************************)
(* One attempt of the poll loop, login_and_get_url lines 172-192: sleep,   *)
(* read the log file, scan it; return the URL if one is found, and         *)
(* Ok(None) once the range 0..50 is used up.                               *)
(***************************************************************************)
PollAttempts == 50

\* RangeUsedUp of the range 0..=50
RangeUsedUpLate(done) == done > PollAttempts

RangeUsedUp(done) == done >= PollAttempts

\* whether a text holds the URL prefix at all (for the history fields)
HoldsPrefix(read) ==
    /\ IsOk(read)
    /\ \E i \in 1..Len(Unwrap(read)) :
          StartsWith(SubSeq(Unwrap(read), i, Len(Unwrap(read))), UrlPrefix)

PollAttempt(read) ==
    /\ pc = "poll"
    /\ ~RangeUsedUp(login.attempt)
    /\ LET url  == ScanRead(read)
           done == login.attempt + 1
           seen == [login EXCEPT !.attempt = done, !.reads = @ + 1, !.polled = TRUE,
                                 !.first_seen = IF @ = 0 /\ HoldsPrefix(read)
                                                THEN done ELSE @,
                                 !.seen = IF login.first_seen = 0 /\ HoldsPrefix(read)
                                          THEN Unwrap(read) ELSE @,
                                 !.read_failed = ~IsOk(read)]
       IN  IF IsSome(url)
           THEN /\ login' = [seen EXCEPT !.result = url]
                /\ pc' = "login_returned"
           ELSE IF RangeUsedUp(done)
           THEN /\ login' = [seen EXCEPT !.timed_out = TRUE]
                /\ pc' = "login_returned"
           ELSE /\ login' = seen
                /\ pc' = "poll"
    /\ Running
    /\ UNCHANGED <<needs_sudo, config, inputs, options, list_state, should_quit,
                   output_view, action, last_event, handling, cmds, outcome, url_app,
                   printed>>

LogReads == {Err, Ok(<<"t", " ", "h">>), Ok(<<"t", "\n", " ", "h", "t", "t", " ", "h">>)}

Poll == \E read \in LogReads : PollAttempt(read)

(***************************************************************************)
(* main, lines 143-254 and 282-392: what the arm does with the result.     *)
(* The locals of login_and_get_url are gone.                               *)
(***************************************************************************)
\* AfterLogin where the arm answers `false` after a login without URL, so that the
\* loop goes on
AfterLoginBackToMenu ==
    /\ pc = "login_returned"
    /\ login' = [login EXCEPT !.attempt = 0, !.reads = 0, !.first_seen = 0, !.seen = <<>>,
                              !.read_failed = FALSE]
    /\ IF IsSome(login.result)
       THEN /\ url_app' = Some([url |-> Unwrap(login.result),
                                tailnet_name |-> Unwrap(login.tailnet).name,
                                should_quit |-> FALSE, open_browser |-> FALSE,
                                closed_by |-> ""])
            /\ pc' = "url_prompt"
            /\ outcome' = "UrlReceived"
            /\ Running
            /\ UNCHANGED <<cmds, action, last_event>>
       ELSE /\ cmds' = Append(cmds, create_command(needs_sudo, <<"status">>))
            /\ outcome' = "Connected"
            /\ NextCycle
            /\ UNCHANGED url_app
    /\ UNCHANGED <<needs_sudo, config, inputs, options, list_state, should_quit,
                   output_view, handling, printed>>

AfterLogin ==
    /\ pc = "login_returned"
    /\ login' = [login EXCEPT !.attempt = 0, !.reads = 0, !.first_seen = 0, !.seen = <<>>,
                              !.read_failed = FALSE]
    /\ IF IsSome(login.result)
       THEN /\ url_app' = Some([url |-> Unwrap(login.result),
                                tailnet_name |-> Unwrap(login.tailnet).name,
                                should_quit |-> FALSE, open_browser |-> FALSE,
                                closed_by |-> ""])
            /\ pc' = "url_prompt"
            /\ outcome' = "UrlReceived"
            /\ Running
            /\ UNCHANGED cmds
       ELSE /\ cmds' = Append(cmds, create_command(needs_sudo, <<"status">>))
            /\ outcome' = "Connected"
            /\ Exit(0, "connected")
            /\ UNCHANGED url_app
    /\ UNCHANGED <<needs_sudo, config, inputs, options, list_state, should_quit,
                   output_view, action, last_event, handling, printed>>

(***************************************************************************)
(* One iteration of UrlDisplayApp::run_loop, ui.rs lines 399-426.          *)
(***************************************************************************)
\* closed_by is history: the key that set should_quit
\* UrlKey where every key that closes the prompt asks for the browser
UrlKeyAlwaysOpens(app, code) ==
    IF code \in {"Enter", "q", "Esc", "c"}
    THEN [app EXCEPT !.open_browser = TRUE, !.should_quit = TRUE, !.closed_by = code]
    ELSE app

UrlKey(app, code) ==
    IF code = "Enter"
    THEN [app EXCEPT !.open_browser = TRUE, !.should_quit = TRUE, !.closed_by = code]
    ELSE IF code \in {"q", "Esc", "c"}
    THEN [app EXCEPT !.should_quit = TRUE, !.closed_by = code]
    ELSE app

UrlLoopIteration ==
    /\ pc = "url_prompt"
    /\ \E ev \in Events :
          LET app == IF ev.type = "Key" /\ ev.kind = "Press"
                     THEN UrlKey(Unwrap(url_app), ev.code) ELSE Unwrap(url_app)
          IN  /\ url_app' = Some(app)
              /\ pc' = IF app.should_quit THEN "url_returned" ELSE "url_prompt"
    /\ Running
    /\ UNCHANGED <<needs_sudo, config, inputs, options, list_state, should_quit,
                   output_view, action, last_event, handling, cmds, outcome, login,
                   printed>>

(***************************************************************************)
(* main, lines 160-254 and 308-392: launch the browser or print the URL,   *)
(* then leave.                                                             *)
(***************************************************************************)
\* AfterUrlPrompt where a browser script that cannot be written ends main with an error
AfterUrlPromptScriptFatal ==
    /\ pc = "url_returned"
    /\ IF Unwrap(url_app).open_browser
       THEN \E written \in BOOLEAN, launched \in BOOLEAN :
               IF ~written
               THEN /\ printed' = {"script_failed"}
                    /\ Exit(1, "script_failed")
                    /\ UNCHANGED cmds
               ELSE /\ cmds' = cmds \o <<<<"chmod", "+x", "script_path">>,
                                          <<"setsid", "-f", "script_path">>>>
                    /\ printed' = IF launched THEN {"browser_launched", "url"}
                                  ELSE {"launch_failed", "url"}
                    /\ Exit(0, "url_shown")
       ELSE /\ printed' = {"exited_without_browser", "url"}
            /\ Exit(0, "url_shown")
            /\ UNCHANGED cmds
    /\ outcome' = "UrlShown"
    /\ UNCHANGED <<needs_sudo, config, inputs, options, list_state, should_quit,
                   output_view, action, last_event, handling, login, url_app>>

AfterUrlPrompt ==
    /\ pc = "url_returned"
    /\ IF Unwrap(url_app).open_browser
       THEN \E written \in BOOLEAN, launched \in BOOLEAN :
               IF ~written
               THEN /\ printed' = {"script_failed", "url"}
                    /\ UNCHANGED cmds
               ELSE /\ cmds' = cmds \o <<<<"chmod", "+x", "script_path">>,
                                          <<"setsid", "-f", "script_path">>>>
                    /\ printed' = IF launched THEN {"browser_launched", "url"}
                                  ELSE {"launch_failed", "url"}
       ELSE /\ printed' = {"exited_without_browser", "url"}
            /\ UNCHANGED cmds
    /\ outcome' = "UrlShown"
    /\ Exit(0, "url_shown")
    /\ UNCHANGED <<needs_sudo, config, inputs, options, list_state, should_quit,
                   output_view, action, last_event, handling, login, url_app>>

(***************************************************************************)
(* The program.                                                            *)
(***************************************************************************)
Next ==
    \/ Startup
    \/ RunLoopIteration
    \/ TerminalFailure
    \/ HandleSelectTailnet
    \/ HandleRunTailscaleUp
    \/ HandleShowStatus
    \/ HandleLogout
    \/ HandleQuitOrNone
    \/ Poll
    \/ AfterLogin
    \/ UrlLoopIteration
    \/ AfterUrlPrompt

Spec == Init /\ [][Next]_vars


(***************************************************************************)
(* The startup merge alone, over every short output of `switch --list`     *)
(* and every short list of configured tailnets.                            *)
(***************************************************************************)
MaxProfiles == 2

MaxTailnets == 2

ProfileLines ==
    {<<"id", name, account>> : name \in {"Work", "Home"}, account \in {<<"u">>, <<"u", "*">>}}
      \cup {<<"id", "Work">>, <<"id">>}

MergeListResults ==
    {Err, Ok(<<>>)}
      \cup {Ok(<<ListHeader>> \o lines) : lines \in SeqsUpTo(ProfileLines, MaxProfiles)}

MergeConfigs ==
    SeqsUpTo({Tailnet(name, None, None, None) : name \in {"Work", "Home", "Travel"}},
             MaxTailnets)

MergeInit ==
    /\ pc = "start"
    /\ exit_code = None
    /\ exit_cause = ""
    /\ needs_sudo = FALSE
    /\ config \in MergeConfigs
    /\ inputs \in [list : MergeListResults, status : StatusResults, select_list : {Err},
                  switched : {None}, logged_out : {None}, installed : {None},
                  primed : {None}]
    /\ options = <<>>
    /\ list_state = None
    /\ should_quit = FALSE
    /\ output_view = None
    /\ action = None
    /\ last_event = None
    /\ handling = ""
    /\ cmds = <<>>
    /\ outcome = ""
    /\ login = [tailnet |-> None, site |-> "", attempt |-> 0, reads |-> 0,
                spawned |-> 0, result |-> None, timed_out |-> FALSE, polled |-> FALSE,
                first_seen |-> 0, seen |-> <<>>, read_failed |-> FALSE]
    /\ url_app = None
    /\ printed = {}
    /\ NoAttempts

MergeNext == StartupWith(Ok(TRUE), FALSE, TRUE, Ok(config), inputs.list, inputs.status)

MergeSpec == MergeInit /\ [][MergeNext]_vars

(***************************************************************************)
(* The poll loop alone, over every short text the log file can hold at an  *)
(* attempt. It starts where the SelectTailnet arm has spawned the          *)
(* background login of the configured tailnet "Travel", which has no       *)
(* profile and no auth key.                                                *)
(***************************************************************************)
MaxFileLen == 5

LogChars == {"h", "t", " ", "\n"}

WatchReads == {Err} \cup {Ok(text) : text \in SeqsUpTo(LogChars, MaxFileLen)}

Travel == Tailnet("Travel", None, None, None)

WatchInit ==
    /\ pc = "poll"
    /\ exit_code = None
    /\ exit_cause = ""
    /\ needs_sudo = FALSE
    /\ config = <<Travel>>
    /\ inputs = [list |-> Err, status |-> Err, select_list |-> Err,
                switched |-> None, logged_out |-> None, installed |-> Some(Ok(TRUE)),
                primed |-> None]
    /\ options = <<ConfigOption(Travel)>>
    /\ list_state = Some(0)
    /\ should_quit = TRUE
    /\ output_view = None
    /\ action = Some(SelectTailnet(Travel))
    /\ last_event = None
    /\ handling = "SelectTailnet"
    /\ cmds = <<create_command(FALSE, <<"switch", "--list">>), login_script(FALSE, Travel)>>
    /\ outcome = ""
    /\ login = [NewLogin(Travel, "fall_through") EXCEPT !.spawned = 1]
    /\ url_app = None
    /\ printed = {}
    /\ NoAttempts

WatchNext == \E read \in WatchReads : PollAttempt(read)

WatchSpec == WatchInit /\ [][WatchNext]_vars

\* the same loop over shorter log files, for the termination of the loop
MaxTimedFileLen == 3

TimedReads == {Err} \cup {Ok(text) : text \in SeqsUpTo(LogChars, MaxTimedFileLen)}

WatchTimedNext == \E read \in TimedReads : PollAttempt(read)

\* the sleep of an attempt ends, so the loop goes on until it returns
WatchFairSpec == WatchInit /\ [][WatchTimedNext]_vars /\ WF_vars(WatchTimedNext)


(***************************************************************************)
(* The menu alone: App::new_with_options given any short list of options,  *)
(* the empty one included, and run_loop on it. With no option,             *)
(* `self.options.len() - 1` in next and previous overflows: a build with   *)
(* overflow checks panics there, a build without them goes on with         *)
(* usize::MAX.                                                             *)
(***************************************************************************)
MaxOptions == 3

MenuOptions ==
    SeqsUpTo({ProfileOption([tailnet |-> "Work", account |-> <<"u", "*">>], Some("Work")),
              ConfigOption(Tailnet("Home", None, None, None))}, MaxOptions)

MenuInit ==
    /\ pc = "ui"
    /\ exit_code = None
    /\ exit_cause = ""
    /\ needs_sudo = FALSE
    /\ config = <<>>
    /\ inputs = [list |-> Err, status |-> Err, select_list |-> Err,
                switched |-> None, logged_out |-> None, installed |-> None,
                primed |-> None]
    /\ options \in MenuOptions
    /\ list_state = new_list_state(options)
    /\ should_quit = FALSE
    /\ output_view = None
    /\ action = None
    /\ last_event = None
    /\ handling = ""
    /\ cmds = <<>>
    /\ outcome = ""
    /\ login = [tailnet |-> None, site |-> "", attempt |-> 0, reads |-> 0,
                spawned |-> 0, result |-> None, timed_out |-> FALSE, polled |-> FALSE,
                first_seen |-> 0, seen |-> <<>>, read_failed |-> FALSE]
    /\ url_app = None
    /\ printed = {}
    /\ NoAttempts

\* how far the selection of an empty list is followed away from 0 and from usize::MAX
MaxSelected == 2

SelectionFollowed ==
    IsSome(list_state') =>
        \/ Unwrap(list_state') <= MaxSelected
        \/ Unwrap(list_state') >= UsizeMax - MaxSelected

MenuLoopIteration == RunLoopIteration /\ SelectionFollowed

\* next or previous on an empty list, in a build with overflow checks
NavigationPanics ==
    /\ pc = "ui"
    /\ ~IsSome(output_view)
    /\ IsSome(list_state)
    /\ Len(options) = 0
    /\ \E code \in {"Down", "j", "Up", "k"} :
          /\ code \in {"Up", "k"} => Unwrap(list_state) = 0
          /\ last_event' = Some(KeyPress(code))
    /\ Exit(101, "panic")
    /\ UNCHANGED <<needs_sudo, config, inputs, options, list_state, should_quit,
                   output_view, action, handling, cmds, outcome, login, url_app, printed>>

MenuNext == MenuLoopIteration \/ NavigationPanics

MenuSpec == MenuInit /\ [][MenuNext]_vars

(***************************************************************************)
(* Two instances of the program that call login_and_get_url without an     *)
(* auth key and share /tmp: each names its log file after the second in    *)
(* which it starts (lines 134-138), its background `tailscale login`       *)
(* writes the URL of its own login into that file through the `>` of the   *)
(* script (lines 154-169), and its poll loop reads the file of that name   *)
(* (lines 172-189).                                                        *)
(***************************************************************************)
\* the URL that `tailscale login` prints for the login of instance i
UrlOf(i) == UrlPrefix \o <<i>>

MainIdle ==
    UNCHANGED <<pc, exit_code, exit_cause, needs_sudo, config, inputs, options,
                list_state, should_quit, output_view, action, last_event, handling, cmds,
                outcome, login, url_app, printed>>

\* the clock passes a second
Tick ==
    /\ now < MaxNow
    /\ now' = now + 1
    /\ UNCHANGED <<log_files, attempts>>
    /\ MainIdle

\* lines 134-169: the log file is named and the script is spawned
StartLogin(i) ==
    /\ attempts[i].stage = "idle"
    /\ attempts' = [attempts EXCEPT ![i] = [@ EXCEPT !.stage = "polling", !.log_file = now]]
    /\ UNCHANGED <<now, log_files>>
    /\ MainIdle

\* the background process of instance i: `>` truncates the file, the URL is written
BackgroundLogin(i) ==
    /\ attempts[i].stage # "idle"
    /\ ~attempts[i].wrote
    /\ log_files' = [log_files EXCEPT ![attempts[i].log_file] = Some(UrlOf(i) \o <<"\n">>)]
    /\ attempts' = [attempts EXCEPT ![i] = [@ EXCEPT !.wrote = TRUE]]
    /\ UNCHANGED now
    /\ MainIdle

\* one attempt of the poll loop of instance i
WatchLogFile(i) ==
    /\ attempts[i].stage = "polling"
    /\ ~RangeUsedUp(attempts[i].attempt)
    /\ LET file == log_files[attempts[i].log_file]
           read == IF IsSome(file) THEN Ok(Unwrap(file)) ELSE Err
           url  == ScanRead(read)
           done == attempts[i].attempt + 1
       IN  attempts' = [attempts EXCEPT ![i] =
                           [@ EXCEPT !.attempt = done,
                                     !.result = url,
                                     !.stage = IF IsSome(url) \/ RangeUsedUp(done)
                                               THEN "returned" ELSE "polling"]]
    /\ UNCHANGED <<now, log_files>>
    /\ MainIdle

LogNext ==
    \/ Tick
    \/ \E i \in Instances : StartLogin(i)
    \/ \E i \in Instances : BackgroundLogin(i)
    \/ \E i \in Instances : WatchLogFile(i)

LogSpec == Init /\ [][LogNext]_vars

(***************************************************************************)
(* Properties.                                                             *)
(***************************************************************************)
IsLogoutCommand(cmd) == \E i \in 1..Len(cmd) : cmd[i] = "logout"

StartupCauses ==
    {"check_installed_failed", "not_installed", "sudo_failed", "config_failed",
     "nothing_to_show"}

RanLogout == \E i \in 1..Len(cmds) : IsLogoutCommand(cmds[i])

\* C1: an arm of main's loop has run a logout command only if it is the Logout arm:
\* the SelectTailnet arm in each of its branches, the RunTailscaleUp arm and the
\* ShowStatus arm run none.
LogoutOnlyInLogoutArm == RanLogout => handling = "Logout"

\* the SelectTailnet arm has ended after a switch, a logged-out check, a background
\* login and the URL prompt
LogoutOnlyInLogoutArmWitness ==
    /\ pc = "exit"
    /\ handling = "SelectTailnet"
    /\ login.site = "after_switch"
    /\ outcome = "UrlShown"
    /\ Len(cmds) >= 4

IsSwitchCommand(cmd) ==
    \E i \in 1..(Len(cmd) - 1) : cmd[i] = "switch" /\ cmd[i + 1] # "--list"

IsUpWithKey(cmd) ==
    /\ \E i \in 1..Len(cmd) : cmd[i] = "up"
    /\ \E i \in 1..(Len(cmd) - 1) : cmd[i] = "--auth-key" /\ cmd[i + 1] = "k1"

RanSwitch == \E i \in 1..Len(cmds) : IsSwitchCommand(cmds[i])

RanUpWithKey == \E i \in 1..Len(cmds) : IsUpWithKey(cmds[i])

ScenarioB ==
    /\ handling = "SelectTailnet"
    /\ pc \in {"poll", "login_returned", "url_prompt", "url_returned", "exit"}
    /\ config = <<Tailnet("Home", None, Some("k1"), None)>>
    /\ Unwrap(action).tailnet.name = "Home"
    /\ unwrap_or_default(list_profiles(inputs.select_list)) = <<>>

\* C2: when the selected tailnet "Home" has no profile and the configuration declares
\* it with the auth key k1, the SelectTailnet arm runs no switch, runs `up` with
\* --auth-key k1, spawns no background login, never polls, and ends as connected.
ScenarioBUsesAuthKey ==
    ScenarioB =>
        /\ ~RanSwitch
        /\ RanUpWithKey
        /\ login.spawned = 0
        /\ ~login.polled
        /\ pc = "exit" /\ exit_cause # "login_failed" => outcome = "Connected"

\* C3: the process ends with an error only at startup or on a terminal failure: no
\* failure of an external command run by an arm of main's loop ends it.
ArmFailuresAreCaught ==
    pc = "exit" /\ exit_code = Some(1) =>
        exit_cause \in StartupCauses \cup {"terminal_io"}

IsQuitKey(ev) == ev = Some(KeyPress("q"))

\* C4: main leaves its loop through the `Some(Quit) | None` arm only after the quit
\* key was pressed, in the list view or in the output view, and Quit was returned.
MenuEndsOnlyOnQuitKey ==
    pc = "exit" /\ exit_cause = "loop_left" =>
        /\ IsQuitKey(last_event)
        /\ IsSome(action) /\ Unwrap(action).kind = "Quit"

\* C5: whenever App::run has returned to main, it has returned Some action, in the
\* first cycle and in every cycle that started in the output view.
EveryCycleReturnsAnAction == pc = "handle" => IsSome(action)

InOutputView == pc = "ui" /\ IsSome(output_view)

OutputViewStep ==
    InOutputView /\ pc' # "exit" /\ IsSome(last_event') =>
        /\ Unwrap(last_event') \in {KeyPress("Enter"), KeyPress("Esc")} =>
              /\ pc' = "ui"
              /\ output_view' = None
              /\ action' = None
              /\ UNCHANGED <<handling, cmds>>
        /\ Unwrap(last_event') = KeyPress("q") =>
              /\ pc' = "handle"
              /\ output_view' = None
              /\ IsSome(action') /\ Unwrap(action').kind = "Quit"

QuitStep ==
    pc = "handle" /\ IsSome(action) /\ Unwrap(action).kind = "Quit" =>
        pc' = "exit" /\ exit_code' = Some(0)

\* C6: in the output view, Enter or Esc brings the list view back within the same call
\* of App::run, with no action set and none run; `q` makes run return Quit with the
\* output view closed, and main then ends the process with exit code 0.
OutputViewConfirmReturnsToList == [][OutputViewStep /\ QuitStep]_vars

\* the status was shown and Enter brought the list view back
OutputViewConfirmWitness ==
    /\ pc = "ui"
    /\ handling = "ShowStatus"
    /\ output_view = None
    /\ action = None
    /\ ~should_quit
    /\ last_event = Some(KeyPress("Enter"))

StartupProfiles == unwrap_or_default(list_profiles(inputs.list))

NamesOf(seq) == {seq[i].name : i \in 1..Len(seq)}

ProfileNames == {StartupProfiles[i].tailnet : i \in 1..Len(StartupProfiles)}

RECURSIVE WithoutRepeats(_)
WithoutRepeats(names) ==
    IF names = <<>> THEN <<>>
    ELSE LET front == WithoutRepeats(SubSeq(names, 1, Len(names) - 1))
             last  == names[Len(names)]
         IN  IF \E i \in 1..Len(front) : front[i] = last THEN front ELSE Append(front, last)

MergedNames ==
    WithoutRepeats([i \in 1..Len(StartupProfiles) |-> StartupProfiles[i].tailnet]
                     \o [i \in 1..Len(config) |-> config[i].name])

\* C7: the options hold exactly the names of the profiles and of the configured
\* tailnets, no name twice, the profiles first and in their order, then the configured
\* tailnets without a profile in theirs.
OptionsAreTheMerge ==
    pc = "ui" =>
        /\ NamesOf(options) = ProfileNames \cup NamesOf(config)
        /\ \A i, j \in 1..Len(options) : i # j => options[i].name # options[j].name
        /\ \A i, j \in 1..Len(options) :
              options[i].is_profile /\ ~options[j].is_profile => i < j
        /\ [i \in 1..Len(options) |-> options[i].name] = MergedNames

\* C8: at most one option is active, and an option is active if and only if it is the
\* option of a profile whose account, as listed, ends with the marker '*'.
OneActiveOptionByMarker ==
    pc = "ui" =>
        /\ \A i, j \in 1..Len(options) :
              options[i].is_active /\ options[j].is_active => i = j
        /\ \A i \in 1..Len(options) :
              options[i].is_active <=>
                  /\ i <= Len(StartupProfiles)
                  /\ ends_with_star(StartupProfiles[i].account)

FirstPrefixAt(text) ==
    CHOOSE i \in 1..Len(text) :
        /\ StartsWith(SubSeq(text, i, Len(text)), UrlPrefix)
        /\ \A j \in 1..(i - 1) : ~StartsWith(SubSeq(text, j, Len(text)), UrlPrefix)

TokenEnd(text, from) ==
    CHOOSE j \in from..Len(text) :
        /\ \A k \in from..j : text[k] \notin Whitespace
        /\ j = Len(text) \/ text[j + 1] \in Whitespace

ExpectedUrl(text) == SubSeq(text, FirstPrefixAt(text), TokenEnd(text, FirstPrefixAt(text)))

\* C9: once a read of the log file holds the URL prefix, at attempt k, the poll loop
\* has returned at that attempt, after k reads, the text from the first occurrence of
\* the prefix up to the next whitespace or the end.
WatcherReturnsFirstUrl ==
    login.first_seen # 0 =>
        /\ pc = "login_returned"
        /\ login.first_seen <= PollAttempts
        /\ login.attempt = login.first_seen
        /\ login.reads = login.first_seen
        /\ login.result = Some(ExpectedUrl(login.seen))

\* the prefix came at the third attempt, after other text and before more
WatcherReturnsFirstUrlWitness ==
    /\ pc = "login_returned"
    /\ login.first_seen = 3
    /\ IsSome(login.result)
    /\ FirstPrefixAt(login.seen) > 1
    /\ Len(login.seen) > FirstPrefixAt(login.seen) + Len(Unwrap(login.result))

\* C10: the poll loop always returns; when no read held the URL prefix it returns
\* Ok(None) after exactly 50 attempts, each one read, and it never makes a 51st.
WatcherTimesOutAfterFifty ==
    /\ [](login.attempt <= PollAttempts /\ login.reads = login.attempt)
    /\ [](pc = "login_returned" /\ login.first_seen = 0 =>
            /\ login.attempt = PollAttempts
            /\ login.result = None
            /\ login.timed_out)
    /\ <>(pc = "login_returned")

\* fifty reads without the prefix, and the loop has returned
WatcherTimesOutWitness ==
    /\ pc = "login_returned"
    /\ login.first_seen = 0
    /\ login.reads = PollAttempts
    /\ login.timed_out

\* C11: whatever the reads of the log file held, a URL the poll loop returns is not
\* empty, holds no whitespace and begins with the URL prefix.
ReturnedUrlIsOneToken ==
    IsSome(login.result) =>
        /\ Unwrap(login.result) # <<>>
        /\ \A i \in 1..Len(Unwrap(login.result)) : Unwrap(login.result)[i] \notin Whitespace
        /\ StartsWith(Unwrap(login.result), UrlPrefix)

\* the loop returned the bare prefix out of a read that begins with whitespace and
\* goes on after the URL
ReturnedUrlIsOneTokenWitness ==
    /\ pc = "login_returned"
    /\ login.result = Some(UrlPrefix)
    /\ login.seen # <<>>
    /\ login.seen[1] \in Whitespace
    /\ Len(login.seen) > Len(UrlPrefix) + 2

ListViewKeyStep(codes) ==
    /\ pc = "ui" /\ ~IsSome(output_view) /\ pc' # "exit"
    /\ \E code \in codes : last_event' = Some(KeyPress(code))

DownStep ==
    ListViewKeyStep({"Down", "j"}) /\ Len(options) >= 1 /\ IsSome(list_state) =>
        list_state' = IF Unwrap(list_state) = Len(options) - 1 THEN Some(0)
                      ELSE Some(Unwrap(list_state) + 1)

UpStep ==
    ListViewKeyStep({"Up", "k"}) /\ Len(options) >= 1 /\ IsSome(list_state) =>
        list_state' = IF Unwrap(list_state) = 0 THEN Some(Len(options) - 1)
                      ELSE Some(Unwrap(list_state) - 1)

EnterOnEmptyStep ==
    ListViewKeyStep({"Enter"}) /\ Len(options) = 0 =>
        action' = None /\ pc' = "ui" /\ UNCHANGED <<should_quit, list_state>>

\* C12: in the list view with n >= 1 options, Down from index n-1 selects index 0, Up
\* from index 0 selects index n-1, and otherwise the index moves by one; with no
\* option, Enter sets no action and run does not return.
NavigationWrapsAround == [][DownStep /\ UpStep /\ EnterOnEmptyStep]_vars

\* Down on the last of three options has selected the first
NavigationWrapsAroundWitness ==
    /\ pc = "ui"
    /\ Len(options) = 3
    /\ list_state = Some(0)
    /\ last_event = Some(KeyPress("Down"))

IsLoginCommand(cmd) == \E i \in 1..Len(cmd) : cmd[i] \in {"up", "login"}

RanLogin == \E i \in 1..Len(cmds) : IsLoginCommand(cmds[i])

SwitchesRun == Cardinality({i \in 1..Len(cmds) : IsSwitchCommand(cmds[i])})

SelectedName == Unwrap(action).tailnet.name

SelectProfiles == unwrap_or_default(list_profiles(inputs.select_list))

SelectedIsProfile ==
    \E i \in 1..Len(SelectProfiles) : SelectProfiles[i].tailnet = SelectedName

ScenarioA ==
    /\ handling = "SelectTailnet"
    /\ SelectedIsProfile
    /\ inputs.switched = Some(TRUE)
    /\ inputs.logged_out = Some(Ok(FALSE))

\* C13: when the selected name has a profile, switch_to succeeds and is_logged_out
\* answers false, the SelectTailnet arm has run exactly one switch, no `up` and no
\* `login`, has polled nothing, and has ended as switched with exit code 0.
ScenarioASwitchesOnly ==
    ScenarioA =>
        /\ SwitchesRun = 1
        /\ ~RanLogin
        /\ login.tailnet = None /\ login.spawned = 0 /\ ~login.polled
        /\ outcome = "Switched"
        /\ pc = "exit" /\ exit_code = Some(0)

\* "Work" is listed as `user*`, is declared in the configuration, and was selected
ScenarioASwitchesOnlyWitness ==
    /\ ScenarioA
    /\ SelectedName = "Work"
    /\ Len(SelectProfiles) = 1
    /\ ends_with_star(SelectProfiles[1].account)
    /\ IsSome(FindTailnet(config, "Work"))

BrowserLaunchInvoked ==
    printed \cap {"script_failed", "browser_launched", "launch_failed"} # {}

UrlPromptReturned == pc = "url_returned" \/ (pc = "exit" /\ outcome = "UrlShown")

\* C14: a URL that login_and_get_url returned is shown by UrlDisplayApp with the name
\* of the tailnet; its run returns true if and only if Enter closed it, and false when
\* q or Esc did; main goes on to launch the browser if and only if it returned true,
\* and prints the URL when it returned false.
UrlPromptDecidesBrowserLaunch ==
    /\ handling = "SelectTailnet" /\ IsSome(login.result) /\ pc \notin {"poll", "login_returned"}
          => IsSome(url_app)
    /\ IsSome(url_app) =>
          /\ Unwrap(url_app).url = Unwrap(login.result)
          /\ Unwrap(url_app).tailnet_name = SelectedName
          /\ pc = "url_prompt" => Unwrap(url_app).closed_by = ""
          /\ UrlPromptReturned =>
                /\ Unwrap(url_app).closed_by \in {"Enter", "q", "Esc", "c"}
                /\ Unwrap(url_app).open_browser <=> Unwrap(url_app).closed_by = "Enter"
          /\ pc = "exit" /\ outcome = "UrlShown" =>
                /\ BrowserLaunchInvoked <=> Unwrap(url_app).open_browser
                /\ ~Unwrap(url_app).open_browser =>
                      {"exited_without_browser", "url"} \subseteq printed

\* the prompt was closed with Esc and main printed the URL without a launch
UrlPromptDecidesBrowserLaunchWitness ==
    /\ pc = "exit"
    /\ outcome = "UrlShown"
    /\ Unwrap(url_app).closed_by = "Esc"
    /\ "url" \in printed
    /\ ~BrowserLaunchInvoked

Holds(cmd, word) == \E i \in 1..Len(cmd) : cmd[i] = word

HoldsPair(cmd, word, value) ==
    \E i \in 1..(Len(cmd) - 1) : cmd[i] = word /\ cmd[i + 1] = value

DeclaredAs(name) == {i \in 1..Len(config) : config[i].name = name}

\* the first configured tailnet of the selected name, else the selected tailnet
ExpectedLoginTailnet ==
    IF DeclaredAs(SelectedName) # {}
    THEN config[CHOOSE i \in DeclaredAs(SelectedName) :
                    \A j \in DeclaredAs(SelectedName) : i <= j]
    ELSE Unwrap(action).tailnet

LoggedOutAfterSwitch ==
    /\ handling = "SelectTailnet"
    /\ SelectedIsProfile
    /\ inputs.switched = Some(TRUE)
    /\ inputs.logged_out = Some(Ok(TRUE))

UsesTailnet(cmd, t) ==
    /\ IF IsSome(t.auth_key)
       THEN Holds(cmd, "up") /\ HoldsPair(cmd, "--auth-key", Unwrap(t.auth_key))
       ELSE Holds(cmd, "login") /\ ~Holds(cmd, "--auth-key")
    /\ IF IsSome(t.login_server)
       THEN HoldsPair(cmd, "--login-server", Unwrap(t.login_server))
       ELSE ~Holds(cmd, "--login-server")
    /\ IF IsSome(t.flags)
       THEN \A i \in 1..Len(Unwrap(t.flags)) : Holds(cmd, Unwrap(t.flags)[i])
       ELSE ~Holds(cmd, "--accept-routes")

\* C15: when switch_to succeeded and is_logged_out answered true, login_and_get_url
\* is called with the configured tailnet of the selected name, and its command carries
\* that entry's login server, auth key and flags; it is called with the selected
\* tailnet itself only when the configuration has no entry of that name.
LoginAfterSwitchUsesConfig ==
    LoggedOutAfterSwitch =>
        /\ login.tailnet = Some(ExpectedLoginTailnet)
        /\ login.site = "after_switch"
        /\ SwitchesRun = 1
        /\ Len(cmds) >= 4
        /\ UsesTailnet(cmds[4], ExpectedLoginTailnet)

\* "Work" was selected and its configured login server, auth key and flag were used
LoginAfterSwitchUsesConfigWitness ==
    /\ LoggedOutAfterSwitch
    /\ SelectedName = "Work"
    /\ HoldsPair(cmds[4], "--auth-key", "k1")
    /\ Holds(cmds[4], "--login-server")
    /\ Holds(cmds[4], "--accept-routes")

SwitchFailed ==
    /\ handling = "SelectTailnet"
    /\ SelectedIsProfile
    /\ inputs.switched = Some(FALSE)

\* C16: when switch_to fails for a selected profile, the arm runs no second switch
\* and calls login_and_get_url with the tailnet of the action; the process does not
\* end with an error unless that login fails or the terminal does.
SwitchFailureFallsThroughToLogin ==
    SwitchFailed =>
        /\ SwitchesRun = 1
        /\ inputs.logged_out = None
        /\ login.tailnet = Some(Unwrap(action).tailnet)
        /\ login.site = "fall_through"
        /\ Len(cmds) >= 3
        /\ IsSwitchCommand(cmds[2])
        /\ IsLoginCommand(cmds[3])
        /\ UsesTailnet(cmds[3], Unwrap(action).tailnet)
        /\ pc = "exit" /\ exit_code = Some(1) => exit_cause \in {"login_failed", "terminal_io"}

\* the switch to "Work" failed, the login gave a URL and the arm ended with the prompt
SwitchFailureFallsThroughToLoginWitness ==
    /\ SwitchFailed
    /\ SelectedName = "Work"
    /\ IsSome(FindTailnet(config, "Work"))
    /\ pc = "exit"
    /\ outcome = "UrlShown"

MenuWasShown == pc # "start" /\ exit_cause \notin StartupCauses

DeclaredOnlyOptions ==
    [i \in 1..Len(config) |->
        [name |-> config[i].name, account |-> None, is_profile |-> FALSE,
         is_active |-> FALSE]]

\* C17: a failed `switch --list` counts as no profile and ends nothing: at startup the
\* menu is still shown, with the configured tailnets as its options; in the
\* SelectTailnet arm no switch is run and the login is started with the selected
\* tailnet.
FailedListingCountsAsNoProfile ==
    /\ MenuWasShown /\ inputs.list = Err =>
          /\ options = DeclaredOnlyOptions
          /\ options # <<>>
    /\ handling = "SelectTailnet" /\ inputs.select_list = Err =>
          /\ ~RanSwitch
          /\ inputs.switched = None
          /\ Len(cmds) >= 2 /\ IsLoginCommand(cmds[2])
          /\ login.tailnet = Some(Unwrap(action).tailnet)
          /\ pc = "exit" /\ exit_code = Some(1) =>
                exit_cause \in {"login_failed", "terminal_io"}

\* the listing failed at startup and again in the arm: two configured tailnets were
\* shown, one was selected and its background login was spawned
FailedListingCountsAsNoProfileWitness ==
    /\ inputs.list = Err
    /\ Len(options) = 2
    /\ handling = "SelectTailnet"
    /\ inputs.select_list = Err
    /\ ~RanSwitch
    /\ login.spawned = 1

RunUpArmStep == pc = "handle" /\ handling' = "RunTailscaleUp" /\ pc' # "handle"

NoLogoutStep == RunUpArmStep => \A i \in 1..Len(cmds') : ~IsLogoutCommand(cmds'[i])

RunUpFailureStep ==
    RunUpArmStep /\ outcome' = "UpFailed" =>
        /\ pc' = "ui" /\ exit_code' = None
        /\ Len(cmds') = 1 /\ Holds(cmds'[1], "up")
        /\ IsSome(output_view')
        /\ Unwrap(output_view').content = <<"Failed to run tailscale up">>
        /\ UNCHANGED <<options, list_state>>

RunUpFailureDismissStep ==
    /\ pc = "ui" /\ IsSome(output_view) /\ outcome = "UpFailed" /\ pc' # "exit"
    /\ last_event' \in {Some(KeyPress("Enter")), Some(KeyPress("Esc"))}
    => pc' = "ui" /\ output_view' = None /\ ~should_quit'

\* C18: when `tailscale up` of the RunTailscaleUp arm fails, the arm ends no process:
\* it hands the error text to the output view and main's loop goes on, and Enter or
\* Esc then brings the list view back; the arm runs no logout, whether `up` fails or
\* not.
RunUpFailureIsShown ==
    [][NoLogoutStep /\ RunUpFailureStep /\ RunUpFailureDismissStep]_vars

\* `up` failed, its error was shown, and Esc brought the list view back
RunUpFailureIsShownWitness ==
    /\ pc = "ui"
    /\ handling = "RunTailscaleUp"
    /\ outcome = "UpFailed"
    /\ output_view = None
    /\ ~should_quit
    /\ last_event = Some(KeyPress("Esc"))

IsListCommand(cmd) ==
    \E i \in 1..(Len(cmd) - 1) : cmd[i] = "switch" /\ cmd[i + 1] = "--list"

RanListing == \E i \in 1..Len(cmds) : IsListCommand(cmds[i])

\* C19: when main's loop comes back to the menu after an arm (Logout, RunTailscaleUp
\* or ShowStatus), the profiles were listed again for the options the menu then
\* shows, so that the options are those of a merge made for that iteration.
OptionsMergedEachIteration ==
    pc = "ui" /\ handling \in {"Logout", "RunTailscaleUp", "ShowStatus"} => RanListing

\* what login_and_get_url returns after `up --auth-key` succeeded
AuthKeySuccessValue == NewLogin(Travel, "fall_through").result

\* C20: when the poll loop has used up its attempts without a URL, the value
\* login_and_get_url returns to main differs from the value it returns after a
\* successful `up --auth-key`, and main does not take the one for the other.
TimedOutIsDistinguished ==
    login.timed_out =>
        /\ pc = "login_returned" => login.result # AuthKeySuccessValue
        /\ pc = "exit" => outcome # "Connected"

\* C21: two calls of login_and_get_url never have the same log file, and the URL a
\* poll loop returns is the one its own background login wrote.
AttemptsHaveOwnLogFiles ==
    /\ \A i, j \in Instances :
          i # j /\ attempts[i].stage # "idle" /\ attempts[j].stage # "idle" =>
              attempts[i].log_file # attempts[j].log_file
    /\ \A i \in Instances :
          IsSome(attempts[i].result) => attempts[i].result = Some(UrlOf(i))

ClientMissing == inputs.installed = Some(Ok(FALSE))

PrimingFailed == inputs.primed = Some(FALSE)

NothingToChoose == StartupProfiles = <<>> /\ config = <<>>

NeverInLoop == last_event = None /\ handling = "" /\ options = <<>> /\ list_state = None

\* C22: once the startup checks are over, a missing tailscale client, a failed
\* `sudo -v`, or no profile together with no configured tailnet mean the program has
\* exited with code 1 on a startup diagnostic and never ran the menu; and the menu only
\* ever runs with at least one option.
StartupRefusals ==
    /\ pc # "start" /\ (ClientMissing \/ PrimingFailed \/ NothingToChoose) =>
            /\ pc = "exit"
            /\ exit_code = Some(1)
            /\ exit_cause \in StartupCauses
            /\ NeverInLoop
    /\ MenuWasShown => options # <<>> /\ IsSome(list_state)

StartupRefusalsWitness ==
    /\ pc = "exit"
    /\ inputs.installed = Some(Ok(TRUE))
    /\ NothingToChoose
    /\ exit_cause = "nothing_to_show"
    /\ exit_code = Some(1)

Highlighted == IF IsSome(list_state) THEN {options[Unwrap(list_state) + 1].name} ELSE {}

ActiveOptions == {i \in 1..Len(options) : options[i].is_active}

\* the highlighted name, and the first active one only when nothing is highlighted
RefreshTargets ==
    IF Highlighted # {} THEN Highlighted
    ELSE IF ActiveOptions # {}
    THEN {options[CHOOSE i \in ActiveOptions : \A j \in ActiveOptions : i <= j].name}
    ELSE {}

\* the first configured tailnet of that name, else the tailnet of the name alone
RefreshTailnet(name) ==
    IF DeclaredAs(name) # {}
    THEN config[CHOOSE i \in DeclaredAs(name) : \A j \in DeclaredAs(name) : i <= j]
    ELSE Tailnet(name, None, None, None)

UpUsesTailnet(cmd, t) ==
    /\ Holds(cmd, "up") /\ ~Holds(cmd, "login")
    /\ IF IsSome(t.auth_key)
       THEN HoldsPair(cmd, "--auth-key", Unwrap(t.auth_key))
       ELSE ~Holds(cmd, "--auth-key")
    /\ IF IsSome(t.login_server)
       THEN HoldsPair(cmd, "--login-server", Unwrap(t.login_server))
       ELSE ~Holds(cmd, "--login-server")
    /\ IF IsSome(t.flags)
       THEN \A i \in 1..Len(Unwrap(t.flags)) : Holds(cmd, Unwrap(t.flags)[i])
       ELSE ~Holds(cmd, "--accept-routes")

RefreshStep ==
    RunUpArmStep =>
        IF RefreshTargets = {}
        THEN /\ cmds' = <<>>
             /\ output_view' = Some([title   |-> <<"Error">>,
                                     content |-> <<"No tailnet selected or active">>])
        ELSE \A name \in RefreshTargets :
                /\ Len(cmds') >= 1
                /\ UpUsesTailnet(cmds'[1], RefreshTailnet(name))
                /\ \A i \in 2..Len(cmds') : ~Holds(cmds'[i], "up")
                /\ IsSome(output_view')
                /\ Unwrap(output_view').title = <<"Tailscale Up - ", name>>

\* C23: the RunTailscaleUp arm runs `tailscale up` once, for the highlighted option (for
\* the first active option only when none is highlighted), with the login server, auth
\* key and flags of the first configured tailnet of that name, or with none of them when
\* no tailnet of that name is configured; with no highlighted and no active option it
\* runs no command and shows "No tailnet selected or active" in the output view.
RefreshUsesHighlightedTailnet == [][RefreshStep]_vars

RefreshUsesHighlightedTailnetWitness ==
    /\ handling = "RunTailscaleUp"
    /\ pc = "ui"
    /\ IsSome(list_state) /\ Unwrap(list_state) > 0
    /\ \A name \in Highlighted :
          /\ DeclaredAs(name) # {}
          /\ IsSome(RefreshTailnet(name).auth_key)
          /\ Len(cmds) >= 1 /\ UpUsesTailnet(cmds[1], RefreshTailnet(name))

ListViewMode == output_view = None

OutputViewMode ==
    /\ Len(output_view) = 1
    /\ DOMAIN output_view[1] = {"title", "content"}

QuitEmitted == IsSome(action) /\ Unwrap(action).kind = "Quit"

\* C24: the menu is always in exactly one of its two modes, the list view (no output
\* view set) or the output view (a title and a content set); it is in the list view
\* before the first event
\* of the first cycle is read; and whenever the action is Quit, no output view is
\* set.
ModeIsListOrOutputView ==
    /\ ListViewMode \/ OutputViewMode
    /\ ~(ListViewMode /\ OutputViewMode)
    /\ handling = "" /\ last_event = None => ListViewMode
    /\ QuitEmitted => ListViewMode
    /\ handling = "Quit" => ListViewMode

\* Quit is returned by a cycle that came after an arm had set the output view
ModeIsListOrOutputViewWitness ==
    /\ pc = "handle"
    /\ QuitEmitted
    /\ handling \in {"ShowStatus", "Logout", "RunTailscaleUp"}
    /\ ListViewMode

OutputArms == {"RunTailscaleUp", "ShowStatus", "Logout"}

OutputViewSetStep ==
    IsSome(output_view') /\ output_view' # output_view =>
        /\ pc = "handle"
        /\ IsSome(action) /\ Unwrap(action).kind \in OutputArms
        /\ handling' = Unwrap(action).kind
        /\ output_view = None

OtherArmStep ==
    pc = "handle" /\ handling' \notin OutputArms =>
        /\ output_view' = output_view
        /\ handling' \in {"SelectTailnet", "Quit"} => output_view' = None

\* C25: an output view is set only by main's loop, in its RunTailscaleUp, ShowStatus or
\* Logout arm; no event of the menu sets one, and none is set by the SelectTailnet arm
\* or when the loop is left on Quit.
OutputViewSetOnlyByArms == [][OutputViewSetStep /\ OtherArmStep]_vars

OutputViewSetOnlyByArmsWitness ==
    /\ pc = "ui"
    /\ handling = "Logout"
    /\ last_event = None
    /\ OutputViewMode

UrlPromptBranches ==
    {"script_failed", "launch_failed", "browser_launched", "exited_without_browser"}

UrlPrintedStep ==
    pc = "url_returned" =>
        /\ pc' = "exit"
        /\ exit_code' = Some(0)
        /\ "url" \in printed'
        /\ \E branch \in UrlPromptBranches : printed' = {branch, "url"}
        /\ Unwrap(url_app).open_browser = ("exited_without_browser" \notin printed')

\* C26: once the URL prompt has returned, every branch (browser launched, script not
\* written, launcher not spawned, prompt left without the browser) prints the URL, and
\* main returns with exit code 0: a failed browser launch never ends it with an error.
UrlPrintedInEveryBranch == [][UrlPrintedStep]_vars

UrlPrintedInEveryBranchWitness ==
    /\ pc = "exit"
    /\ printed = {"script_failed", "url"}
    /\ exit_code = Some(0)
    /\ IsSome(url_app) /\ Unwrap(url_app).open_browser

\* a poll attempt whose read_to_string failed
FailedReadStep == pc = "poll" /\ login'.attempt = login.attempt + 1 /\ login'.read_failed

FailedReadGoesOn ==
    FailedReadStep =>
        /\ login'.result = None
        /\ exit_code' = None
        /\ pc' # "exit"
        /\ IF login.attempt + 1 < PollAttempts
           THEN pc' = "poll" /\ ~login'.timed_out
           ELSE pc' = "login_returned" /\ login'.timed_out

\* C27: a poll attempt whose read of the log file fails finds no URL and is one attempt
\* of the 50 like any other: the loop goes on with the next attempt (and returns
\* Ok(None) only when it was the 50th); it returns no error and does not stop early.
FailedReadCountsAsNotFound == [][FailedReadGoesOn]_vars

\* the loop is about to make its third attempt after a read that failed
FailedReadCountsAsNotFoundWitness ==
    /\ pc = "poll"
    /\ login.read_failed
    /\ login.attempt = 2
    /\ login.result = None
    /\ exit_code = None

LoginTailnet == Unwrap(login.tailnet)

UpCommands == {i \in 1..Len(cmds) : Holds(cmds[i], "up")}

BackgroundLogins == {i \in 1..Len(cmds) : Holds(cmds[i], "login")}

LogFileUsers == {i \in 1..Len(cmds) : Holds(cmds[i], "log_file")}

WithAuthKey ==
    /\ Cardinality(UpCommands) = 1
    /\ \A i \in UpCommands : UpUsesTailnet(cmds[i], LoginTailnet) /\ ~Holds(cmds[i], "bash")
    /\ BackgroundLogins = {} /\ LogFileUsers = {}
    /\ login.spawned = 0 /\ ~login.polled /\ login.reads = 0 /\ login.attempt = 0
    /\ login.result = None /\ ~login.timed_out
    /\ pc \in {"login_returned", "exit"}
    /\ IF outcome = "LoginError"
       THEN pc = "exit" /\ exit_code = Some(1)
       ELSE pc = "exit" => outcome = "Connected" /\ exit_code = Some(0)

WithoutAuthKey ==
    /\ UpCommands = {}
    /\ Cardinality(BackgroundLogins) = 1
    /\ \A i \in BackgroundLogins :
          /\ UsesTailnet(cmds[i], LoginTailnet)
          /\ Holds(cmds[i], "bash") /\ Holds(cmds[i], "log_file") /\ Holds(cmds[i], "&")
    /\ IF login.spawned = 0
       THEN outcome = "LoginError" /\ pc = "exit" /\ exit_code = Some(1) /\ ~login.polled
       ELSE /\ login.spawned = 1
            /\ pc # "poll" => login.polled
            /\ IsSome(login.result) \/ login.timed_out \/ pc = "poll"

\* C28: login_and_get_url with an auth key runs one foreground `up` with that key, the
\* login server and the flags, no background login and no log file, and never polls; a
\* failed `up` is a login error and a successful one comes back as Ok(None), which main
\* reports as connected. Without an auth key it runs no `up`: it starts the background
\* login into the log file and the poll loop decides the result.
AuthKeyLoginRunsUpOnly ==
    IsSome(login.tailnet) =>
        IF IsSome(LoginTailnet.auth_key) THEN WithAuthKey ELSE WithoutAuthKey

AuthKeyLoginRunsUpOnlyWitness ==
    /\ IsSome(login.tailnet)
    /\ IsSome(LoginTailnet.auth_key) /\ IsSome(LoginTailnet.flags)
    /\ outcome = "Connected"
    /\ exit_code = Some(0)

OutputViewKeys == {KeyPress("Enter"), KeyPress("Esc"), KeyPress("q")}

OtherEventStep ==
    InOutputView /\ IsSome(last_event') /\ Unwrap(last_event') \notin OutputViewKeys =>
        /\ pc' = "ui"
        /\ output_view' = output_view
        /\ action' = None

\* C29: in the output view, a key other than Enter, Esc and `q`, and an event that is
\* no key press, leave the output view as it is, title and content, and App::run does
\* not return, also when should_quit is still set from the cycle before.
OtherEventKeepsOutputView == [][OtherEventStep]_vars

SelectionInRange ==
    options # <<>> =>
        /\ IsSome(list_state)
        /\ Unwrap(list_state) \in 0..(Len(options) - 1)

ListViewEnterStep ==
    /\ pc = "ui" /\ output_view = None /\ options # <<>>
    /\ last_event' = Some(KeyPress("Enter")) /\ pc' # "exit"
    => /\ pc' = "handle"
       /\ action' = Some([kind    |-> "SelectTailnet",
                          tailnet |-> [name         |-> options[Unwrap(list_state) + 1].name,
                                       login_server |-> None,
                                       auth_key     |-> None,
                                       flags        |-> None]])
       /\ UNCHANGED <<list_state, options, output_view>>

\* C30: with a non-empty list of options, whatever keys were pressed in whatever
\* cycles, an index is selected and it is one of 0..n-1; so Enter in the list view
\* always makes App::run return SelectTailnet with the name of the highlighted option
\* and no login server, auth key or flags.
EnterAlwaysSelectsHighlighted == [][SelectionInRange' /\ ListViewEnterStep]_vars

\* Enter on the last option, reached by Up from the first one, after an output view
\* was dismissed
EnterAlwaysSelectsHighlightedWitness ==
    /\ pc = "handle"
    /\ handling = "ShowStatus"
    /\ last_event = Some(KeyPress("Enter"))
    /\ Len(options) >= 3
    /\ list_state = Some(Len(options) - 1)
    /\ IsSome(action) /\ Unwrap(action).kind = "SelectTailnet"
    /\ Unwrap(action).tailnet.name = options[Len(options)].name

NavigateDown == {KeyPress("Down"), KeyPress("j")}

NavigateUp == {KeyPress("Up"), KeyPress("k")}

\* a key handled in the list view of a menu without options
EmptyListKeyStep(keys) ==
    /\ pc = "ui" /\ output_view = None /\ options = <<>>
    /\ IsSome(last_event') /\ Unwrap(last_event') \in keys

\* `self.options.len() - 1` is evaluated by next whenever an index is selected, and by
\* previous when the selected index is 0
LenMinusOneOfEmpty ==
    \/ EmptyListKeyStep(NavigateDown) /\ IsSome(list_state)
    \/ EmptyListKeyStep(NavigateUp) /\ list_state = Some(0)

NeverAcceptedByEnter ==
    options' = <<>> => ~(IsSome(list_state') /\ Unwrap(list_state') < Len(options'))

OutputArmKeys == {KeyPress("u"), KeyPress("s"), KeyPress("l")}

DismissKeys == {KeyPress("Enter"), KeyPress("Esc")}

\* the action key is pressed in the list view
OutputArmKeyStep ==
    /\ pc = "ui" /\ output_view = None
    /\ IsSome(last_event') /\ Unwrap(last_event') \in OutputArmKeys
    /\ pc' # "exit"

\* main runs the arm and pushes its output
OutputArmStep == pc = "handle" /\ handling' \in OutputArms

\* the output view is dismissed
DismissStep ==
    /\ InOutputView
    /\ IsSome(last_event') /\ Unwrap(last_event') \in DismissKeys
    /\ pc' # "exit"

SelectionKeptStep ==
    OutputArmKeyStep \/ OutputArmStep \/ DismissStep =>
        /\ options' = options
        /\ list_state' = list_state

\* C32: pressing `u`, `s` or `l`, running that arm of main's loop with the output it
\* pushes, and dismissing the output view with Enter or Esc all leave the options and
\* the selected index as they were: back in the list view, the option that was
\* highlighted when the key was pressed is highlighted.
ActionsKeepSelection == [][SelectionKeptStep]_vars

\* back in the list view after a logout, with the second option still highlighted
ActionsKeepSelectionWitness ==
    /\ pc = "ui"
    /\ handling = "Logout"
    /\ output_view = None
    /\ last_event = Some(KeyPress("Esc"))
    /\ list_state = Some(1)

SelectOutcomes == {"Switched", "Connected", "UrlShown"}

\* the SelectTailnet arm was entered: the menu is not run again, and every branch that
\* ends without an error ends the process with exit code 0
SelectEnds ==
    handling = "SelectTailnet" =>
        /\ pc \in {"poll", "login_returned", "url_prompt", "url_returned", "exit"}
        /\ pc = "exit" /\ outcome \in SelectOutcomes => exit_code = Some(0)
        /\ pc = "exit" /\ exit_code = Some(0) => outcome \in SelectOutcomes

SelectGoesToExitStep ==
    handling = "SelectTailnet" => handling' = "SelectTailnet" /\ pc' \notin {"ui", "handle"}

\* the other three arms go on with the next cycle, in the output view
OutputArmGoesOnStep ==
    OutputArmStep =>
        /\ pc' = "ui"
        /\ exit_code' = None
        /\ OutputViewMode'
        /\ last_event' = None

\* C33: once main has entered its SelectTailnet arm, the menu is not shown again: the
\* arm goes through the login, the poll loop and the URL prompt to the end of the
\* process, with exit code 0 when switched, connected, timed out, or when the URL was
\* shown with or without the browser; the RunTailscaleUp, ShowStatus and Logout arms
\* never end the process, and the cycle after them starts in the output view.
SelectEndsTheProgram ==
    [][SelectEnds' /\ SelectGoesToExitStep /\ OutputArmGoesOnStep]_vars

\* the poll loop timed out and the process has ended
SelectEndsTheProgramWitness ==
    /\ pc = "exit"
    /\ handling = "SelectTailnet"
    /\ login.timed_out
    /\ outcome = "Connected"
    /\ exit_code = Some(0)

SwitchCommands ==
    {i \in 1..Len(cmds) : IsSwitchCommand(cmds[i]) /\ ~Holds(cmds[i], "--list")}

LoginCommands == {i \in 1..Len(cmds) : IsLoginCommand(cmds[i])}

\* C34: the SelectTailnet arm runs `switch <name>` at most once and calls
\* login_and_get_url at most once, whichever branch it takes (after a switch that left
\* the profile logged out it does not go on to the fall-through login), so a run of the
\* program spawns at most one background login.
OneSwitchOneLogin ==
    /\ login.spawned <= 1
    /\ handling = "SelectTailnet" =>
          /\ Cardinality(SwitchCommands) <= 1
          /\ Cardinality(LoginCommands) <= 1
          /\ Cardinality(BackgroundLogins) = login.spawned
                \/ (outcome = "LoginError" /\ login.spawned = 0)
          /\ login.site = "after_switch" =>
                Cardinality(SwitchCommands) = 1 /\ Cardinality(LoginCommands) = 1
    /\ handling # "SelectTailnet" => login.spawned = 0 /\ login.tailnet = None

\* the switch left the profile logged out, and the one login was spawned
OneSwitchOneLoginWitness ==
    /\ handling = "SelectTailnet"
    /\ login.site = "after_switch"
    /\ login.spawned = 1
    /\ Cardinality(SwitchCommands) = 1
    /\ Cardinality(BackgroundLogins) = 1

\* the switch succeeded and the `status` of is_logged_out could not be executed
LoggedOutCheckFailed ==
    /\ handling = "SelectTailnet"
    /\ SelectedIsProfile
    /\ inputs.switched = Some(TRUE)
    /\ inputs.logged_out = Some(Err)

\* C35: when switch_to succeeded and is_logged_out itself fails, the profile counts as
\* not logged out: the arm starts no login (no `up`, no `login`, no poll), and ends as
\* switched with exit code 0.
FailedLoggedOutCheckMeansSwitched ==
    LoggedOutCheckFailed =>
        /\ Cardinality(SwitchCommands) = 1
        /\ LoginCommands = {}
        /\ login.tailnet = None /\ login.spawned = 0 /\ ~login.polled
        /\ url_app = None
        /\ outcome = "Switched"
        /\ pc = "exit" /\ exit_code = Some(0) /\ exit_cause = "switched"

FailedLoggedOutCheckMeansSwitchedWitness ==
    /\ LoggedOutCheckFailed
    /\ outcome = "Switched"
    /\ exit_code = Some(0)
    /\ IsSome(FindTailnet(config, SelectedName))

====
